---- MODULE Spec2Model ----
(***************************************************************************)
(* crow::multipart::message (include/crow/multipart.h): boundary           *)
(* discovery, body splitting, section and header parsing, serialization.   *)
(*                                                                         *)
(* A std::string is a sequence of one-character strings.  A size_t is an   *)
(* integer; the values 2^64 - k that the code produces (npos, and lengths  *)
(* minus two of strings shorter than two) are written -k, the same residue *)
(* modulo 2^64, so that `found + 2` with found = npos is 1 as in the code. *)
(* A negative integer therefore reads as a size_t larger than any length.  *)
(***************************************************************************)
EXTENDS Integers, Sequences, FiniteSets, TLC

VARIABLES
    pc,         \* position of the running call
    hdr,        \* req.get_header_value("Content-Type")
    req_body,   \* req.body, as received
    boundary,   \* message::boundary
    body,       \* parse_body's local buffer `body`
    parts,      \* message::parts (parse_body's `sections` while it runs)
    first,      \* the parts of the first parse, kept for the round trip
    out,        \* the text returned by dump()
    lines,      \* parse_section_head's argument `lines`
    line,       \* parse_section_head's local `line`
    to_add,     \* parse_section_head's local `to_add`
    headers,    \* part.headers being filled by parse_section_head
    head_in,    \* the header block parse_section_head was called with
    written     \* the parts the sender wrote req.body from

vars == <<pc, hdr, req_body, boundary, body, parts, first, out,
          lines, line, to_add, headers, head_in, written>>

-----------------------------------------------------------------------------
(* Characters and std::string operations *)

CR == "\r"
LF == "\n"
QUOTE == "\""

crlf == <<CR, LF>>

dd == <<"-", "-">>

NPOS == -1

boundary_text == <<"b", "o", "u", "n", "d", "a", "r", "y", "=">>

\* The number of characters a call (pos, n) covers when avail remain:
\* min(n, avail) on unsigned values.
Clamp(n, avail) == IF n < 0 \/ n > avail THEN avail ELSE n

\* s.substr(pos, n) for pos <= s.size()
Substr(s, pos, n) == SubSeq(s, pos + 1, pos + Clamp(n, Len(s) - pos))

\* s.substr(pos) throws std::out_of_range when pos > s.size()
SubstrThrows(s, pos) == pos < 0 \/ pos > Len(s)

\* s.erase(0, n)
Erase(s, n) == SubSeq(s, Clamp(n, Len(s)) + 1, Len(s))

Occurs(s, pat, i) == SubSeq(s, i + 1, i + Len(pat)) = pat

\* s.find(pat): the least offset pat occurs at, or npos
Find(s, pat) ==
    LET hits == {i \in 0..(Len(s) - Len(pat)) : Occurs(s, pat, i)}
    IN  IF hits = {} THEN NPOS
        ELSE CHOOSE i \in hits : \A j \in hits : i <= j

-----------------------------------------------------------------------------
(* message::trim, message::pad *)

trim(string) ==
    IF Len(string) > 1 /\ string[1] = QUOTE /\ string[Len(string)] = QUOTE
    THEN Substr(string, 1, Len(string) - 2)
    ELSE string

\* Line 199 without the padding
PadBare(string) == string

pad(string) == <<QUOTE>> \o string \o <<QUOTE>>

-----------------------------------------------------------------------------
(* message::get_boundary *)

BoundaryFound(found) == found # 0

get_boundary(header) ==
    LET found == Find(header, boundary_text)
        pos == found + Len(boundary_text)
        to_return == Substr(header, pos, NPOS)
    IN  IF BoundaryFound(found)
        THEN IF SubstrThrows(header, pos)
             THEN [threw |-> TRUE, value |-> <<>>]
             ELSE IF Len(to_return) > 0 /\ to_return[1] = QUOTE
                  THEN [threw |-> FALSE,
                        value |-> Substr(to_return, 1, Len(to_return) - 2)]
                  ELSE [threw |-> FALSE, value |-> to_return]
        ELSE [threw |-> FALSE, value |-> <<>>]

-----------------------------------------------------------------------------
(* multipart::header, multipart::part *)

EmptyParams == [k \in {} |-> <<>>]

\* A default-constructed header
NewHeader == [value |-> << <<>>, <<>> >>, params |-> EmptyParams]

\* unordered_map::emplace: an existing key keeps its value
Emplace(m, k, v) ==
    IF k \in DOMAIN m THEN m
    ELSE [x \in (DOMAIN m) \cup {k} |-> IF x = k THEN v ELSE m[x]]

-----------------------------------------------------------------------------
(* The pieces of message::parse_section_head *)

\* Line 154 with the CRLF counted as one character
LineEraseOffByOne(ls, found) == Erase(ls, found + 1)

\* Lines 152-154: the next line and what stays in `lines`
LineErase(ls, found) == Erase(ls, found + 2)

NextLine(ls) ==
    LET found == Find(ls, crlf)
    IN  [line |-> Substr(ls, 0, found), lines |-> LineErase(ls, found)]

\* Lines 158-163 and 173-178: cut the text before the first "; "
SemiCut(l) ==
    LET found == Find(l, <<";", " ">>)
    IN  [head |-> Substr(l, 0, found),
         rest |-> IF found # NPOS THEN Erase(l, found + 2) ELSE <<>>]

\* Lines 165-167: the (name, value) pair of a main segment
ValueStart(header_split) == header_split + 2

PrimaryPair(header) ==
    LET header_split == Find(header, <<":", " ">>)
        pos == ValueStart(header_split)
    IN  [threw |-> SubstrThrows(header, pos),
         value |-> << Substr(header, 0, header_split),
                      Substr(header, pos, NPOS) >>]

\* Lines 180-184: the key and the value of a parameter token
ParamPair(param) ==
    LET param_split == Find(param, <<"=">>)
        value == Substr(param, param_split + 1, NPOS)
    IN  [key |-> Substr(param, 0, param_split), value |-> trim(value)]

\* Lines 171-185 as a whole: every token of `l` emplaced in turn
RECURSIVE AddParams(_, _)
AddParams(l, params) ==
    IF l = <<>> THEN params
    ELSE LET cut == SemiCut(l)
             p == ParamPair(cut.head)
         IN  AddParams(cut.rest, Emplace(params, p.key, p.value))

\* Lines 150-186: one iteration of the outer loop, for a non-empty `lines`
HeadIteration(ls) ==
    LET nl == NextLine(ls)
        cut == SemiCut(nl.line)
        pair == PrimaryPair(cut.head)
    IN  IF nl.line = <<>>
        THEN [threw |-> FALSE, lines |-> nl.lines, header |-> NewHeader]
        ELSE [threw |-> pair.threw, lines |-> nl.lines,
              header |-> [value |-> pair.value,
                          params |-> AddParams(cut.rest, EmptyParams)]]

\* message::parse_section_head: the headers appended to part.headers
RECURSIVE parse_section_head(_, _)
parse_section_head(ls, hs) ==
    IF ls = <<>> THEN [threw |-> FALSE, headers |-> hs]
    ELSE LET it == HeadIteration(ls)
         IN  IF it.threw THEN [threw |-> TRUE, headers |-> hs]
             ELSE parse_section_head(it.lines, Append(hs, it.header))

-----------------------------------------------------------------------------
(* message::parse_section *)

BodyOf(rest) == Substr(rest, 0, Len(rest) - 2)

parse_section(section) ==
    LET found == Find(section, crlf \o crlf)
        head_line == Substr(section, 0, found + 2)
        rest == Erase(section, found + 4)
        head == parse_section_head(head_line, <<>>)
    IN  [threw |-> head.threw,
         part |-> [headers |-> head.headers, body |-> BodyOf(rest)]]

-----------------------------------------------------------------------------
(* message::message(const request&) and message::parse_body, step by step *)

delimiter == dd \o boundary

\* Lines 86-89: headers, then boundary from the Content-Type value; parts is
\* initialised next, by parse_body(req.body).
Ctor ==
    /\ pc = "ctor"
    /\ LET r == get_boundary(hdr)
       IN  IF r.threw
           THEN /\ pc' = "threw"
                /\ UNCHANGED <<boundary, body>>
           ELSE /\ pc' = "parse_body"
                /\ boundary' = r.value
                /\ body' = req_body
    /\ UNCHANGED <<hdr, req_body, parts, first, out,
                   lines, line, to_add, headers, head_in, written>>

\* Line 117: the loop test; line 130 when it fails
ParseBodyTest ==
    /\ pc = "parse_body"
    /\ pc' = IF body # crlf THEN "split" ELSE "parsed"
    /\ UNCHANGED <<hdr, req_body, boundary, body, parts, first, out,
                   lines, line, to_add, headers, head_in, written>>

\* Line 124 without the two characters after the delimiter
BodyEraseNoCrlf(b, found, dlen) == Erase(b, found + dlen)

\* Line 124: what stays in the buffer
BodyErase(b, found, dlen) == Erase(b, found + dlen + 2)

\* Lines 119-128: one iteration of the loop
ParseBodySplit ==
    /\ pc = "split"
    /\ LET found == Find(body, delimiter)
           section == Substr(body, 0, found)
           sec == parse_section(section)
       IN  /\ body' = BodyErase(body, found, Len(delimiter))
           /\ IF section # <<>>
              THEN IF sec.threw
                   THEN pc' = "threw" /\ parts' = parts
                   ELSE pc' = "parse_body" /\ parts' = Append(parts, sec.part)
              ELSE pc' = "parse_body" /\ parts' = parts
    /\ UNCHANGED <<hdr, req_body, boundary, first, out,
                   lines, line, to_add, headers, head_in, written>>

-----------------------------------------------------------------------------
(* message::parse_section_head, step by step *)

\* Lines 148-168: the loop test, the next line and its primary pair
HeadLine ==
    /\ pc = "head_loop"
    /\ lines # <<>>
    /\ LET nl == NextLine(lines)
           cut == SemiCut(nl.line)
           pair == PrimaryPair(cut.head)
       IN  /\ lines' = nl.lines
           /\ IF nl.line = <<>>
              THEN /\ line' = <<>>
                   /\ to_add' = NewHeader
                   /\ pc' = "param_loop"
              ELSE /\ line' = cut.rest
                   /\ IF pair.threw
                      THEN to_add' = NewHeader /\ pc' = "threw"
                      ELSE /\ to_add' = [NewHeader EXCEPT !.value = pair.value]
                           /\ pc' = "param_loop"
    /\ UNCHANGED <<hdr, req_body, boundary, body, parts, first, out,
                   headers, head_in, written>>

\* Lines 171-185: one iteration of the parameter loop
HeadParam ==
    /\ pc = "param_loop"
    /\ line # <<>>
    /\ LET cut == SemiCut(line)
           p == ParamPair(cut.head)
       IN  /\ line' = cut.rest
           /\ to_add' = [to_add EXCEPT !.params = Emplace(@, p.key, p.value)]
    /\ UNCHANGED <<pc, hdr, req_body, boundary, body, parts, first, out,
                   lines, headers, head_in, written>>

\* Line 186
HeadEmplace ==
    /\ pc = "param_loop"
    /\ line = <<>>
    /\ headers' = Append(headers, to_add)
    /\ pc' = "head_loop"
    /\ UNCHANGED <<hdr, req_body, boundary, body, parts, first, out,
                   lines, line, to_add, head_in, written>>

\* Lines 148 and 188: the loop test fails and the call returns
HeadReturn ==
    /\ pc = "head_loop"
    /\ lines = <<>>
    /\ pc' = "head_ret"
    /\ UNCHANGED <<hdr, req_body, boundary, body, parts, first, out,
                   lines, line, to_add, headers, head_in, written>>

-----------------------------------------------------------------------------
(* message::dump() and message::dump(int) *)

\* The orders an unordered_map over the keys S may be iterated in
Orders(S) ==
    {o \in [1..Cardinality(S) -> S] :
        \A i, j \in 1..Cardinality(S) : i # j => o[i] # o[j]}

RECURSIVE dump_params(_, _)
\* Lines 70-73, for the iteration order `order`
dump_params(params, order) ==
    IF order = <<>> THEN <<>>
    ELSE <<";", " ">> \o Head(order) \o <<"=">> \o pad(params[Head(order)])
         \o dump_params(params, Tail(order))

\* Lines 69-74
dump_header(item_h) ==
    {item_h.value[1] \o <<":", " ">> \o item_h.value[2]
        \o dump_params(item_h.params, o) \o crlf :
            o \in Orders(DOMAIN item_h.params)}

RECURSIVE dump_headers(_)
\* Lines 67-75
dump_headers(hs) ==
    IF hs = <<>> THEN {<<>>}
    ELSE {a \o b : a \in dump_header(Head(hs)), b \in dump_headers(Tail(hs))}

\* message::dump(int), lines 63-79
dump_part(item) ==
    {h \o crlf \o item.body \o crlf : h \in dump_headers(item.headers)}

RECURSIVE dump_parts(_, _)
\* Lines 53-57
dump_parts(delim, ps) ==
    IF ps = <<>> THEN {<<>>}
    ELSE {delim \o crlf \o a \o b :
            a \in dump_part(Head(ps)), b \in dump_parts(delim, Tail(ps))}

\* Line 58
Closing(delim) == delim \o dd \o crlf

\* message::dump(), lines 48-60
dump(bnd, ps) ==
    {t \o Closing(dd \o bnd) : t \in dump_parts(dd \o bnd, ps)}

\* dump() called on a message, built directly or parsed from a request
Dump ==
    /\ pc \in {"built", "parsed"}
    /\ out = <<>>
    /\ out' \in dump(boundary, parts)
    /\ pc' = "dumped"
    /\ UNCHANGED <<hdr, req_body, boundary, body, parts, first,
                   lines, line, to_add, headers, head_in, written>>

\* The text of dump() received as the body of a request with the same
\* Content-Type: message(const request&) again, lines 86-90
Reparse ==
    /\ pc = "dumped"
    /\ first' = parts
    /\ parts' = <<>>
    /\ boundary' = get_boundary(hdr).value
    /\ body' = out
    /\ pc' = "parse_body"
    /\ UNCHANGED <<hdr, req_body, out,
                   lines, line, to_add, headers, head_in, written>>

-----------------------------------------------------------------------------
(* Inputs *)

RECURSIVE Strings(_, _)
\* The strings of at most n pieces drawn from T
Strings(T, n) ==
    IF n = 0 THEN {<<>>}
    ELSE LET r == Strings(T, n - 1)
         IN  r \cup {t \o u : t \in T, u \in r}

MaxHeadLen == 4

HeadChars == {<<"a">>, <<":">>, <<" ">>, <<";">>, <<"=">>, <<CR>>, <<LF>>}

Idle ==
    /\ hdr = <<>>
    /\ req_body = <<>>
    /\ boundary = <<>>
    /\ body = <<>>
    /\ parts = <<>>
    /\ first = <<>>
    /\ out = <<>>
    /\ written = <<>>

\* Header blocks longer than MaxHeadLen
HeadSamples ==
    { <<"a", ":", " ", "b", ";", " ", "k", "=", "v", CR, LF, "c", ":", " ", "d", CR, LF>>,
      <<"a", ":", " ", "b", ";", " ", "k", "=", QUOTE, "v", QUOTE, ";", " ", "j", CR, LF>>,
      <<"a", ";", " ", "k", CR, LF>> }

\* parse_section_head called on a header block, with an empty part
InitHead ==
    /\ Idle
    /\ pc = "head_loop"
    /\ head_in \in Strings(HeadChars, MaxHeadLen) \cup HeadSamples
    /\ lines = head_in
    /\ line = <<>>
    /\ to_add = NewHeader
    /\ headers = <<>>

NextHead == HeadLine \/ HeadParam \/ HeadEmplace \/ HeadReturn

SpecHead == InitHead /\ [][NextHead]_vars

-----------------------------------------------------------------------------
(* Requests: Content-Type values with and without the boundary token, and   *)
(* any body                                                                 *)

NoHead ==
    /\ lines = <<>>
    /\ line = <<>>
    /\ to_add = NewHeader
    /\ headers = <<>>
    /\ head_in = <<>>

MaxBodyPieces == 3

BodyPieces == {<<"-", "-", "X">>, dd, crlf, <<"a">>}

FormData == <<"m", "u", "l", "t", "i", "p", "a", "r", "t", "/", "f", "o", "r", "m", "-", "d", "a", "t", "a", ";", " ">>

\* "" is what get_header_value returns for a request without Content-Type
CtorHeaders ==
    {pre \o mid \o val :
        pre \in {<<>>, FormData},
        mid \in {<<>>, boundary_text},
        val \in {<<>>, <<"X">>, <<QUOTE, "X", QUOTE>>, <<"X", ";", " ", "a", "=", "b">>}}

InitCtor ==
    /\ pc = "ctor"
    /\ hdr \in CtorHeaders
    /\ req_body \in Strings(BodyPieces, MaxBodyPieces)
    /\ boundary = <<>>
    /\ body = <<>>
    /\ parts = <<>>
    /\ first = <<>>
    /\ out = <<>>
    /\ written = <<>>
    /\ NoHead

NextCtor == Ctor \/ ParseBodyTest \/ ParseBodySplit

SpecCtor == InitCtor /\ [][NextCtor]_vars

\* The constructor runs to its end once called: no step of it waits on
\* anything.
FairCtor == SpecCtor /\ WF_vars(NextCtor)

HasToken(h) == Find(h, boundary_text) # NPOS

\* The text after the first `boundary=`
AfterToken(h) ==
    SubSeq(h, Find(h, boundary_text) + Len(boundary_text) + 1, Len(h))

\* One layer of surrounding double quotes removed, when there is one
Unquoted(t) ==
    IF Len(t) >= 2 /\ t[1] = QUOTE /\ t[Len(t)] = QUOTE
    THEN SubSeq(t, 2, Len(t) - 1)
    ELSE t

\* C5: for every Content-Type value that contains `boundary=`, at offset 0
\* as well as later, the boundary of the message is the text after
\* `boundary=`, without its surrounding double quotes when it is quoted.
C5_BoundaryAtAnyOffset ==
    (pc # "ctor" /\ HasToken(hdr)) => boundary = Unquoted(AfterToken(hdr))

\* C6: a Content-Type value without `boundary=` (the empty value of an
\* absent header included) raises no error, leaves the boundary empty and
\* yields no parts.
C6_MissingBoundaryYieldsNothing ==
    ~HasToken(hdr) =>
        /\ pc # "threw"
        /\ pc # "ctor" => boundary = <<>>
        /\ pc = "parsed" => parts = <<>>

\* C7: parse_body ends on every body and boundary: the constructor reaches
\* its end (or an error) whatever the body holds.
C7_ParseBodyTerminates == <>(pc \in {"parsed", "threw"})

-----------------------------------------------------------------------------
(* Requests whose body is a well-formed multipart body *)

RECURSIVE Flat(_)
\* The pieces of ss, one after the other
Flat(ss) == IF ss = <<>> THEN <<>> ELSE Head(ss) \o Flat(Tail(ss))

\* The sequences of at most n elements of S
SeqsUpTo(S, n) == UNION {[1..k -> S] : k \in 0..n}

\* A written header line: name, value, and the tokens `; key=raw` in order
WLine(name, value, params) ==
    [name |-> name, value |-> value, params |-> params]

LineA == WLine(<<"C", "o", "n", "t", "e", "n", "t", "-", "D", "i", "s", "p", "o", "s", "i", "t", "i", "o", "n">>, <<"f", "o", "r", "m", "-", "d", "a", "t", "a">>,
               << <<<<"n", "a", "m", "e">>, <<QUOTE, "f", QUOTE>>>> >>)

LinePool ==
    { LineA,
      WLine(<<"C", "o", "n", "t", "e", "n", "t", "-", "T", "y", "p", "e">>, <<"t", "e", "x", "t", "/", "p", "l", "a", "i", "n">>, <<>>),
      WLine(<<"N">>, <<"a", ":", " ", "b">>, << <<<<"k">>, <<"v">>>>, <<<<"j">>, <<QUOTE, "w", QUOTE>>>> >>),
      WLine(<<"N">>, <<"v">>, << <<<<"j">>, <<QUOTE, QUOTE, "x", QUOTE, QUOTE>>>>, <<<<"k">>, <<>> >> >>),
      WLine(<<"N">>, <<"v">>, << <<<<"k">>, <<QUOTE, "x">>>> >>) }

BodyPool == {<<>>, <<"h", "e", "l", "l", "o">>, <<"b", "o", "d", "y">>, <<"a", CR, LF, "b", "-", "-">>}

WPart(hs, b) == [headers |-> hs, body |-> b]

MaxHeaders == 2

MaxParts == 2

\* One part with any header block of the pool's lines
RichParts ==
    {WPart(hs, b) : hs \in SeqsUpTo(LinePool, MaxHeaders), b \in BodyPool}

PartPool ==
    { WPart(<<LineA>>, <<"h", "e", "l", "l", "o">>),
      WPart(<<>>, <<"b", "o", "d", "y">>),
      WPart(<<>>, <<>>),
      WPart(<<WLine(<<"N">>, <<"v">>, <<>>), WLine(<<"N">>, <<"w">>, <<>>)>>,
            <<"a", CR, LF, "b", "-", "-">>) }

WFBoundaries == {<<"X">>, <<"-", "b">>}

\* The wire text of a header line, of a part and of a body
WriteLine(l) ==
    l.name \o <<":", " ">> \o l.value
    \o Flat([i \in 1..Len(l.params) |->
                <<";", " ">> \o l.params[i][1] \o <<"=">> \o l.params[i][2]])

WritePart(p) ==
    Flat([i \in 1..Len(p.headers) |-> WriteLine(p.headers[i]) \o crlf])
    \o crlf \o p.body \o crlf

WriteBody(b, ps) ==
    Flat([i \in 1..Len(ps) |-> dd \o b \o crlf \o WritePart(ps[i])])
    \o dd \o b \o dd \o crlf

InitWF ==
    /\ pc = "ctor"
    /\ written \in {<<p>> : p \in RichParts} \cup SeqsUpTo(PartPool, MaxParts)
    /\ \E b \in WFBoundaries :
          /\ hdr \in {FormData \o boundary_text \o b,
                      FormData \o boundary_text \o pad(b)}
          /\ req_body = WriteBody(b, written)
    /\ boundary = <<>>
    /\ body = <<>>
    /\ parts = <<>>
    /\ first = <<>>
    /\ out = <<>>
    /\ NoHead

SpecWF == InitWF /\ [][NextCtor]_vars

\* C1: a well-formed body of N parts parses to exactly N parts, the i-th
\* parsed from the text of the i-th part of the body.
C1_OnePartPerSection ==
    pc = "parsed" =>
        /\ Len(parts) = Len(written)
        /\ \A i \in 1..Len(written) :
              parts[i] = parse_section(WritePart(written[i])).part

C1_TwoPartsParsed ==
    /\ pc = "parsed"
    /\ Len(written) = 2
    /\ written[1] # written[2]
    /\ Len(parts) = 2

\* What a written line and a written part are to parse to: the pair split
\* at the first ": ", each parameter value without one layer of quotes
ExpectedParams(ps) ==
    [k \in {ps[i][1] : i \in 1..Len(ps)} |->
        Unquoted(ps[CHOOSE i \in 1..Len(ps) : ps[i][1] = k][2])]

ExpectedHeader(l) ==
    [value |-> <<l.name, l.value>>, params |-> ExpectedParams(l.params)]

ExpectedPart(p) ==
    [headers |-> [i \in 1..Len(p.headers) |-> ExpectedHeader(p.headers[i])],
     body |-> p.body]

\* C2: every part of K lines `name: value` with M tokens `; key=value` parses
\* to K headers in source order, each the pair split at the first ": " with
\* a mapping of M parameters whose values lost one layer of surrounding
\* double quotes, and to the body before the final CRLF.
C2_HeadersAndParamsParsed ==
    pc = "parsed" =>
        /\ Len(parts) = Len(written)
        /\ \A i \in 1..Len(written) : parts[i] = ExpectedPart(written[i])

\* C8: a section without header lines parses to a part with no headers and
\* the whole body.
C8_HeaderlessSection ==
    pc = "parsed" =>
        \A i \in 1..Len(written) :
            (written[i].headers = <<>> /\ i <= Len(parts)) =>
                parts[i] = [headers |-> <<>>, body |-> written[i].body]

-----------------------------------------------------------------------------
(* Messages built with message(headers, boundary, sections), then dumped *)

Params1 == [k \in {<<"n", "a", "m", "e">>} |-> <<"f">>]

Params2 == [k \in {<<"k">>, <<"j">>} |-> IF k = <<"k">> THEN <<QUOTE, "v", QUOTE>> ELSE <<>>]

HeaderPool ==
    { [value |-> <<<<"C", "o", "n", "t", "e", "n", "t", "-", "D", "i", "s", "p", "o", "s", "i", "t", "i", "o", "n">>, <<"f", "o", "r", "m", "-", "d", "a", "t", "a">>>>, params |-> Params1],
      [value |-> <<<<"C", "o", "n", "t", "e", "n", "t", "-", "T", "y", "p", "e">>, <<"t", "e", "x", "t", "/", "p", "l", "a", "i", "n">>>>, params |-> EmptyParams],
      [value |-> <<<<"N">>, <<"a", ":", " ", "b">>>>, params |-> Params2],
      NewHeader }

MaxDumpHeaders == 2

MaxDumpParts == 2

DumpParts ==
    {[headers |-> hs, body |-> b] :
        hs \in SeqsUpTo(HeaderPool, MaxDumpHeaders),
        b \in {<<>>, <<"h", "e", "l", "l", "o">>}}

DumpBoundaries == {<<>>, <<"X">>}

\* Lines 82-83
InitDump ==
    /\ pc = "built"
    /\ boundary \in DumpBoundaries
    /\ parts \in {<<p>> : p \in DumpParts}
                 \cup SeqsUpTo({p \in DumpParts : Len(p.headers) = 1},
                               MaxDumpParts)
    /\ hdr = <<>>
    /\ req_body = <<>>
    /\ body = <<>>
    /\ first = <<>>
    /\ out = <<>>
    /\ written = <<>>
    /\ NoHead

NextDump == Dump

SpecDump == InitDump /\ [][NextDump]_vars

\* The text of one header for the parameter order o, and of one part for the
\* orders oo of its headers, piece by piece
HeaderText(h, o) ==
    Flat(<<h.value[1], <<":", " ">>, h.value[2]>>
         \o [i \in 1..Len(o) |->
                Flat(<<<<";", " ">>, o[i], <<"=">>, <<QUOTE>>, h.params[o[i]],
                       <<QUOTE>>>>)]
         \o <<crlf>>)

PartText(p, oo) ==
    Flat([j \in 1..Len(p.headers) |-> HeaderText(p.headers[j], oo[j])]
         \o <<crlf, p.body, crlf>>)

PartTexts(p) ==
    {PartText(p, oo) :
        oo \in {f \in [1..Len(p.headers) ->
                        UNION {Orders(DOMAIN p.headers[j].params) :
                                  j \in 1..Len(p.headers)}] :
                    \A j \in 1..Len(p.headers) :
                        f[j] \in Orders(DOMAIN p.headers[j].params)}}

\* out is, for each part in order, `--boundary CRLF` and a text of that
\* part, then `--boundary-- CRLF`: the parts are read off out from the left
RECURSIVE IsDumpOf(_, _, _)
IsDumpOf(text, bnd, ps) ==
    IF ps = <<>> THEN text = Flat(<<dd, bnd, dd, crlf>>)
    ELSE \E t \in PartTexts(Head(ps)) :
            LET lead == Flat(<<dd, bnd, crlf, t>>)
            IN  /\ Len(text) >= Len(lead)
                /\ SubSeq(text, 1, Len(lead)) = lead
                /\ IsDumpOf(SubSeq(text, Len(lead) + 1, Len(text)),
                            bnd, Tail(ps))

\* C4: dump() is, for each part in order, `--B CRLF` and that part's text,
\* then once `--B-- CRLF`; a part's text is each header as `name: value`
\* with `; key="value"` for every parameter and a CRLF, then a CRLF, the
\* body and a CRLF; and dump changes neither the parts nor the boundary.
C4_DumpFormat ==
    /\ [](pc = "dumped" => IsDumpOf(out, boundary, parts))
    /\ [][pc' = "dumped" => (parts' = parts /\ boundary' = boundary)]_vars

C4_TwoPartsDumped ==
    /\ pc = "dumped"
    /\ Len(parts) = 2
    /\ parts[1] # parts[2]
    /\ \E i \in 1..2 : Cardinality(DOMAIN parts[i].headers[1].params) = 2

-----------------------------------------------------------------------------
(* The round trip: parse a request, dump the message, parse the dump *)

MaxRoundPieces == 4

RoundBoundaries == {<<"X">>, <<":", " ", "-">>}

RoundPieces(b) == {dd \o b, dd, crlf, <<"a">>}

InitRound ==
    /\ pc = "ctor"
    /\ \E b \in RoundBoundaries :
          /\ hdr = FormData \o boundary_text \o b
          /\ req_body \in Strings(RoundPieces(b), MaxRoundPieces)
    /\ boundary = <<>>
    /\ body = <<>>
    /\ parts = <<>>
    /\ first = <<>>
    /\ out = <<>>
    /\ written = <<>>
    /\ NoHead

NextRound == Ctor \/ ParseBodyTest \/ ParseBodySplit \/ Dump \/ Reparse

SpecRound == InitRound /\ [][NextRound]_vars

\* C3: whenever parsing a body completes, parsing the dump of the result
\* with the same boundary yields the same parts: as many, in the same order,
\* each with the same headers, parameters and body.
C3_RoundTrip ==
    /\ (pc = "parsed" /\ out # <<>>) => parts = first
    /\ (pc = "threw" => out = <<>>)

-----------------------------------------------------------------------------
(* Claims about parse_section_head *)

\* A header block of exactly one non-empty line ending in CRLF
IsOneLine(b) == Len(b) >= 3 /\ Find(b, crlf) = Len(b) - 2

RECURSIVE Tokens(_)
\* The pieces of s between the separators "; "
Tokens(s) ==
    IF s = <<>> THEN {}
    ELSE LET f == Find(s, <<";", " ">>)
         IN  IF f = NPOS THEN {s}
             ELSE {SubSeq(s, 1, f)} \cup Tokens(SubSeq(s, f + 3, Len(s)))

\* C9: a non-empty line without ": " (one that begins with "; " included)
\* and a parameter token without "=" raise no out-of-range error; the line
\* contributes no primary pair and the token is stored with an empty value.
C9_MalformedLineTolerated ==
    /\ pc # "threw"
    /\ (pc = "head_ret" /\ IsOneLine(head_in)) =>
          LET l == SubSeq(head_in, 1, Len(head_in) - 2)
              f == Find(l, <<";", " ">>)
              main == IF f = NPOS THEN l ELSE SubSeq(l, 1, f)
              rest == IF f = NPOS THEN <<>> ELSE SubSeq(l, f + 3, Len(l))
          IN  /\ Len(headers) = 1
              /\ Find(main, <<":", " ">>) = NPOS =>
                    headers[1].value = << <<>>, <<>> >>
              /\ \A t \in Tokens(rest) :
                    Find(t, <<"=">>) = NPOS =>
                        /\ t \in DOMAIN headers[1].params
                        /\ headers[1].params[t] = <<>>

\* The outer iterations begun so far
Begun == Len(headers) + (IF pc \in {"param_loop", "threw"} THEN 1 ELSE 0)

\* C10: parse_section_head ends on every header block.  An outer iteration
\* takes at least one character off `lines` (at least two when a CRLF is
\* found, exactly one when none is) and appends exactly one header when it
\* completes; an iteration of the parameter loop shortens `line`; so no more
\* outer iterations begin than the block has characters.  (Every step but
\* an iteration of the parameter loop moves pc; the second conjunct says
\* that such an iteration, wherever it is about to run, shortens `line`.)
C10_HeadTerminates ==
    /\ [](Begun + Len(lines) <= Len(head_in))
    /\ []((pc = "param_loop" /\ line # <<>>) =>
            Len(SemiCut(line).rest) < Len(line))
    /\ [][/\ (pc = "head_loop" /\ pc' # "head_ret") =>
                IF Find(lines, crlf) # NPOS
                THEN Len(lines) - Len(lines') >= 2
                ELSE Len(lines) - Len(lines') = 1
          /\ (pc = "param_loop" /\ pc' = "param_loop") =>
                Len(line') < Len(line)
          /\ IF pc = "param_loop" /\ pc' = "head_loop"
             THEN Len(headers') = Len(headers) + 1
             ELSE headers' = headers]_vars

C10_TwoLinesParsed ==
    /\ pc = "head_ret"
    /\ Len(headers) >= 2
    /\ \E i \in 1..Len(headers) : DOMAIN headers[i].params # {}

====
